---- MODULE Spec2Model ----
\* Model of the schedule assistant: the SQLite event store (db.py), the
\* reminder poll loop (reminder.py) and the Streamlit handlers that write the
\* store (main.py).  Time is counted in whole seconds since 2025-01-01T00:00
\* local time; every stored instant is a number of seconds, NULL is -1.
EXTENDS Integers, Sequences, FiniteSets, TLC

VARIABLES
    store,      \* events table: id -> row, or NoRow when the id has no row
    nextId,     \* AUTOINCREMENT counter of the events table
    now,        \* wall clock
    running,    \* sessions whose script run has started a reminder thread
    wpc,        \* per reminder thread: position in reminder_loop
    wnow,       \* per reminder thread: now_local of the current tick
    wevs,       \* per reminder thread: the list read by list_events()
    widx,       \* per reminder thread: index of the event being handled
    wrc,        \* per reminder thread: updated_rc read back after the increment
    wwake,      \* per reminder thread: next_wakeup_seconds
    wuntil,     \* per reminder thread: instant before which the thread sleeps
    upc,        \* control path: position inside a multi-statement handler
    uarg,       \* control path: target and input of the handler started last
    nops,       \* number of control-path handlers counted as started
    sent,       \* history: notifications sent per id for the current occurrence
    total,      \* history: notifications sent per id since the model started
    fresh,      \* history: per id, the handler that last reset the row, if no
                \* other handler touched the row since
    row0,       \* history: the table when the model started
    last,       \* history: the control-path statement executed last, if it was the last step
    stop,       \* sessions whose stop_event is set
    alerts,     \* global_streamlit_alerts
    pin,        \* argument of the pure function applied last
    pout,       \* its result
    faults      \* history: the failures that have happened, as <<kind, id>>

vars == <<store, nextId, now, running, wpc, wnow, wevs, widx, wrc, wwake,
          wuntil, upc, uarg, nops, sent, total, fresh, row0, last,
          stop, alerts, pin, pout, faults>>

wvars == <<wpc, wnow, wevs, widx, wrc, wwake, wuntil>>
uvars == <<upc, uarg, nops>>
hvars == <<sent, total>>
pvars == <<pin, pout>>
xvars == <<stop, alerts, pin, pout, faults>>

\* everything but the argument and the result of a pure function
evars == <<store, nextId, now, running, wpc, wnow, wevs, widx, wrc, wwake,
           wuntil, upc, uarg, nops, sent, total, fresh, row0, last, stop,
           alerts, faults>>

-----------------------------------------------------------------------------
\* Program constants

CHECK_INTERVAL == 5
REPEAT_DELAY == 60
SecPerMin == 60
SecPerDay == 86400
DaysPerWeek == 7
EpochYear == 2025
EpochWeekday == 2
SecPerHour == 3600

\* Bounds of the model
MaxEvents == 1
MaxSessions == 2
MaxElapsed == 125
MaxOps == 2
MaxAlerts == 10
MaxBatch == 2
MaxTokens == 4
MaxDay == 364
MaxMissed == 2

NULL == -1
NoRow == [absent |-> TRUE]
NoStep == <<"none", 0>>
NoArg == [id |-> 0, kind |-> "none"]

\* 2025-01-31T00:20:00, the clock when the model starts
T0 == (30 * SecPerDay) + (20 * SecPerMin)

Ids == 1..MaxEvents
BatchIds == 1..MaxBatch
Sessions == 1..MaxSessions

Min(a, b) == IF a <= b THEN a ELSE b

-----------------------------------------------------------------------------
\* Calendar arithmetic (dateutil.relativedelta(months=1) on a datetime)

IsLeap(y) == (y % 4 = 0 /\ y % 100 # 0) \/ y % 400 = 0

DaysInMonth(y, m) ==
    IF m = 2 THEN (IF IsLeap(y) THEN 29 ELSE 28)
    ELSE IF m \in {4, 6, 9, 11} THEN 30 ELSE 31

RECURSIVE YMDFrom(_, _, _)
YMDFrom(y, m, d) ==
    IF d < DaysInMonth(y, m) THEN <<y, m, d + 1>>
    ELSE YMDFrom(IF m = 12 THEN y + 1 ELSE y, IF m = 12 THEN 1 ELSE m + 1,
                 d - DaysInMonth(y, m))

\* <<year, month, day>> of a day index counted from the epoch
YMD(dayIdx) == YMDFrom(EpochYear, 1, dayIdx)

RECURSIVE DaysBefore(_, _)
DaysBefore(y, m) ==
    IF y = EpochYear /\ m = 1 THEN 0
    ELSE LET py == IF m = 1 THEN y - 1 ELSE y
             pm == IF m = 1 THEN 12 ELSE m - 1
         IN  DaysBefore(py, pm) + DaysInMonth(py, pm)

\* dt + relativedelta(months=1): next month, year rollover, day clipped to the
\* length of the new month, time of day kept
AddMonth(t) ==
    LET ymd == YMD(t \div SecPerDay)
        ny == IF ymd[2] = 12 THEN ymd[1] + 1 ELSE ymd[1]
        nm == IF ymd[2] = 12 THEN 1 ELSE ymd[2] + 1
        nd == Min(ymd[3], DaysInMonth(ny, nm))
    IN  ((DaysBefore(ny, nm) + nd - 1) * SecPerDay) + (t % SecPerDay)

-----------------------------------------------------------------------------
\* Rows and the pure helpers of db.py / reminder.py

Importances == {"normal", "important", "critical"}
EditCadences == {"none", "daily", "weekly", "monthly"}
Cadences == EditCadences \cup {"every_2_ngay"}

\* a row of the events table; the model's handlers never vary the title, the
\* end time and the location, which are kept at one value each
MkRow(start, rem, imp, rep, notified, rc, isStop, nn, pam) ==
    [event |-> "e", start |-> start, end |-> NULL, loc |-> NULL,
     rem |-> rem, imp |-> imp, rep |-> rep,
     notified |-> notified, rc |-> rc, isStop |-> isStop, nn |-> nn, pam |-> pam]

Exists(st, i) == st[i] # NoRow

_floor_to_min(t) == t - (t % SecPerMin)

\* db._compute_next_notify_iso
_compute_next_notify_iso(start, rem) == _floor_to_min(start - (rem * SecPerMin))

\* variant: one notification more for an important event
max_repeat_extra(imp) ==
    CASE imp = "normal" -> 1
      [] imp = "important" -> 3
      [] imp = "critical" -> 3
      [] OTHER -> 1

\* {"normal": 1, "important": 2, "critical": 3}.get(importance, 1)
max_repeat(imp) ==
    CASE imp = "normal" -> 1
      [] imp = "important" -> 2
      [] imp = "critical" -> 3
      [] OTHER -> 1

\* start_dt as the loop uses it (floored to the minute)
start_dt(ev) == _floor_to_min(ev.start)

base_remind(ev) == _floor_to_min(start_dt(ev) - (ev.rem * SecPerMin))

\* next_notify as the loop uses it: the stored value, or base_remind when NULL
next_notify(ev) == IF ev.nn # NULL THEN _floor_to_min(ev.nn) ELSE base_remind(ev)

secs_until(ev, nowl) == next_notify(ev) - nowl

\* variant: the branch is taken whatever the clock says
Due_anytime(ev, nowl) == ev.rc < max_repeat(ev.imp)

\* the condition of the main notification branch
Due(ev, nowl) == secs_until(ev, nowl) <= 0 /\ ev.rc < max_repeat(ev.imp)

\* variant: a weekly event advances by one day
new_start_weekday(rep, sdt) ==
    CASE rep = "daily" -> sdt + SecPerDay
      [] rep = "weekly" -> sdt + SecPerDay
      [] rep = "monthly" -> AddMonth(sdt)
      [] OTHER -> NULL

\* new_start of _schedule_next_occurrence, NULL when it returns False
new_start(rep, sdt) ==
    CASE rep = "daily" -> sdt + SecPerDay
      [] rep = "weekly" -> sdt + (DaysPerWeek * SecPerDay)
      [] rep = "monthly" -> AddMonth(sdt)
      [] OTHER -> NULL

\* variant: the statement creates the row when it is missing
Update_upsert(st, i, r) ==
    [st EXCEPT ![i] = IF Exists(st, i) THEN r
                      ELSE MkRow(0, 0, "normal", "none", 0, 0, 0, NULL, 0)]

\* UPDATE ... WHERE id=? : changes the row when it exists, nothing otherwise
Update(st, i, r) == IF Exists(st, i) THEN [st EXCEPT ![i] = r] ELSE st

\* UPDATE events SET repeat_count = repeat_count + 1
IncRow(r) == [r EXCEPT !.rc = @ + 1]

\* UPDATE events SET next_notify = now_local + REPEAT_DELAY, floored
RenagRow(r, nowl) == [r EXCEPT !.nn = _floor_to_min(nowl + REPEAT_DELAY)]

\* the UPDATE of _schedule_next_occurrence
RollRow(r, ev) ==
    LET ns == new_start(ev.rep, start_dt(ev))
    IN  [r EXCEPT !.start = ns, !.rc = 0, !.notified = 0,
                  !.nn = _floor_to_min(ns - (ev.rem * SecPerMin)), !.pam = 0]

\* variant: the closing UPDATE forgets isStop
CloseRow_open(r) == [r EXCEPT !.notified = 1, !.nn = NULL, !.pam = 0]

\* UPDATE events SET notified=1, isStop=1, next_notify=NULL, pending_auto_mark=0
CloseRow(r) == [r EXCEPT !.notified = 1, !.isStop = 1, !.nn = NULL, !.pam = 0]

\* the write made after the increment, decided from the snapshot ev, the
\* tick's now_local and the repeat_count read back
FinRow(r, ev, nowl, rc) ==
    IF rc < max_repeat(ev.imp) THEN RenagRow(r, nowl)
    ELSE IF ev.rep # "none" /\ new_start(ev.rep, start_dt(ev)) # NULL
         THEN RollRow(r, ev)
         ELSE CloseRow(r)

\* the alert add_streamlit_alert builds from an event
Alert(ev) ==
    [event |-> ev.event, time |-> ev.start, location |-> ev.loc,
     importance |-> ev.imp]

\* global_streamlit_alerts.append(alert)
add_streamlit_alert(al, ev) == Append(al, Alert(ev))

\* global_streamlit_alerts[-8:]
get_streamlit_alerts(al) ==
    IF Len(al) <= 8 THEN al ELSE SubSeq(al, Len(al) - 7, Len(al))

\* list_events(): rows ordered by start_time (ties in id order)
RECURSIVE Listed(_, _)
Listed(st, ids) ==
    IF ids = {} THEN <<>>
    ELSE LET i == CHOOSE x \in ids : \A y \in ids :
                      \/ st[x].start < st[y].start
                      \/ (st[x].start = st[y].start /\ x <= y)
         IN  <<[id |-> i, ev |-> st[i]]>> \o Listed(st, ids \ {i})

list_events(st) == Listed(st, {i \in DOMAIN st : Exists(st, i)})

-----------------------------------------------------------------------------
\* reminder_loop, one action per statement that reaches the store

Cur(w) == wevs[w][widx[w]]

\* variant: the wait ignores the stop signal and runs to its timeout
WaitOver_timeout(w) == now >= wuntil[w]

\* stop_event.wait(timeout) returns at the timeout, or at once when the event
\* is set
WaitOver(w) == now >= wuntil[w] \/ w \in stop

\* top of the while loop: stop_event is not set; read the clock and the whole
\* table
W_Read(w) ==
    /\ w \in running
    /\ wpc[w] = "sleep"
    /\ WaitOver(w)
    /\ w \notin stop
    /\ wpc' = [wpc EXCEPT ![w] = "loop"]
    /\ wnow' = [wnow EXCEPT ![w] = now]
    /\ wevs' = [wevs EXCEPT ![w] = list_events(store)]
    /\ widx' = [widx EXCEPT ![w] = 1]
    /\ wwake' = [wwake EXCEPT ![w] = CHECK_INTERVAL]
    /\ last' = NoStep
    /\ UNCHANGED <<fresh, row0, xvars, store, nextId, now, running, wrc, wuntil, uvars, hvars>>

\* the four writes of the auto-mark branch
AutoMarkRow(r) == [r EXCEPT !.isStop = 1, !.notified = 1, !.nn = NULL, !.pam = 0]

\* one pass of the for loop up to the first store write of the fire branch
W_Eval(w) ==
    /\ wpc[w] = "loop"
    /\ widx[w] <= Len(wevs[w])
    /\ LET ev == Cur(w).ev
           i == Cur(w).id
           su == secs_until(ev, wnow[w])
       IN  IF ev.isStop = 1
           THEN /\ widx' = [widx EXCEPT ![w] = @ + 1]
                /\ last' = NoStep
                /\ UNCHANGED <<store, hvars, wpc, wwake, alerts>>
           ELSE IF ev.pam = 1 /\ su <= 0
           THEN /\ store' = Update(store, i, AutoMarkRow(store[i]))
                /\ widx' = [widx EXCEPT ![w] = @ + 1]
                /\ last' = NoStep
                /\ UNCHANGED <<hvars, wpc, wwake, alerts>>
           ELSE IF Due(ev, wnow[w])
           THEN \* send_notification, add_streamlit_alert
                /\ sent' = [sent EXCEPT ![i] = @ + 1]
                /\ total' = [total EXCEPT ![i] = @ + 1]
                /\ alerts' = add_streamlit_alert(alerts, ev)
                /\ wpc' = [wpc EXCEPT ![w] = "inc"]
                /\ last' = NoStep
                /\ UNCHANGED <<store, widx, wwake>>
           ELSE /\ wwake' = [wwake EXCEPT ![w] =
                        IF su > 0 THEN Min(@, Min(su, CHECK_INTERVAL)) ELSE @]
                /\ widx' = [widx EXCEPT ![w] = @ + 1]
                /\ last' = NoStep
                /\ UNCHANGED <<store, hvars, wpc, alerts>>
    /\ UNCHANGED <<fresh, row0, faults, stop, pvars, nextId, now, running, wnow, wevs, wrc, wuntil, uvars>>

\* UPDATE events SET repeat_count = repeat_count + 1; commit
W_Inc(w) ==
    /\ wpc[w] = "inc"
    /\ store' = Update(store, Cur(w).id, IncRow(store[Cur(w).id]))
    /\ wpc' = [wpc EXCEPT ![w] = "sel"]
    /\ last' = NoStep
    /\ UNCHANGED <<fresh, row0, xvars, nextId, now, running, wnow, wevs, widx, wrc, wwake, wuntil,
                   uvars, hvars>>

\* SELECT repeat_count; fetchone()[0] raises when the row is gone, and the
\* except clause goes on to the next event
W_Sel(w) ==
    /\ wpc[w] = "sel"
    /\ IF Exists(store, Cur(w).id)
       THEN /\ wrc' = [wrc EXCEPT ![w] = store[Cur(w).id].rc]
            /\ wpc' = [wpc EXCEPT ![w] = "fin"]
            /\ UNCHANGED widx
       ELSE /\ wpc' = [wpc EXCEPT ![w] = "loop"]
            /\ widx' = [widx EXCEPT ![w] = @ + 1]
            /\ UNCHANGED wrc
    /\ last' = NoStep
    /\ UNCHANGED <<fresh, row0, xvars, store, nextId, now, running, wnow, wevs, wwake, wuntil,
                   uvars, hvars>>

\* the re-nag, roll or closing UPDATE; commit
W_Fin(w) ==
    /\ wpc[w] = "fin"
    /\ LET i == Cur(w).id
           ev == Cur(w).ev
           rolls == wrc[w] >= max_repeat(ev.imp) /\ ev.rep # "none"
                    /\ new_start(ev.rep, start_dt(ev)) # NULL
       IN  /\ store' = Update(store, i, FinRow(store[i], ev, wnow[w], wrc[w]))
           /\ sent' = IF rolls /\ Exists(store, i)
                      THEN [sent EXCEPT ![i] = 0] ELSE sent
           /\ last' = NoStep
    /\ wpc' = [wpc EXCEPT ![w] = "loop"]
    /\ widx' = [widx EXCEPT ![w] = @ + 1]
    /\ wrc' = [wrc EXCEPT ![w] = 0]
    /\ UNCHANGED <<fresh, row0, xvars, nextId, now, running, wnow, wevs, wwake, wuntil, uvars, total>>

\* stop_event.wait(max(0.5, next_wakeup_seconds)); at whole-second resolution
\* next_wakeup_seconds is at least 1, so the 0.5 floor never applies
W_Sleep(w) ==
    /\ wpc[w] = "loop"
    /\ widx[w] > Len(wevs[w])
    /\ wpc' = [wpc EXCEPT ![w] = "sleep"]
    /\ wuntil' = [wuntil EXCEPT ![w] =
                    IF wnow[w] + wwake[w] <= now THEN 0 ELSE wnow[w] + wwake[w]]
    /\ wevs' = [wevs EXCEPT ![w] = <<>>]
    /\ widx' = [widx EXCEPT ![w] = 1]
    /\ wnow' = [wnow EXCEPT ![w] = 0]
    /\ wwake' = [wwake EXCEPT ![w] = CHECK_INTERVAL]
    /\ last' = NoStep
    /\ UNCHANGED <<fresh, row0, xvars, store, nextId, now, running, wrc, uvars, hvars>>

\* time passes
AdvanceSteps == {25, 60}

\* time passes while the threads wait (a tick's statements take no time at
\* this resolution); a wait that has run out is forgotten (wuntil 0)
Advance ==
    /\ \A w \in Sessions : wpc[w] \in {"sleep", "done", "dead"}
    /\ \E d \in AdvanceSteps :
          /\ now + d <= T0 + MaxElapsed
          /\ now' = now + d
    /\ wuntil' = [w \in Sessions |-> IF wuntil[w] <= now' THEN 0 ELSE wuntil[w]]
    /\ last' = NoStep
    /\ UNCHANGED <<fresh, row0, xvars, store, nextId, running, wpc, wnow, wevs, widx, wrc, wwake,
                   uvars, hvars>>

Worker ==
    \E w \in Sessions : W_Read(w) \/ W_Eval(w) \/ W_Inc(w) \/ W_Sel(w)
                        \/ W_Fin(w) \/ W_Sleep(w)

-----------------------------------------------------------------------------
\* Rows the create path leaves in the table

StartChoices == {T0 - (10 * SecPerMin), T0 + SecPerMin}
RemChoices == {0, 1}

Drafts ==
    [start : StartChoices, rem : RemChoices, imp : Importances, rep : Cadences]

CreatedRow(d) ==
    MkRow(d.start, d.rem, d.imp, d.rep, 0, 0, 0,
          _compute_next_notify_iso(d.start, d.rem), 0)

WorkerInit ==
    /\ wpc = [w \in Sessions |-> "sleep"]
    /\ wnow = [w \in Sessions |-> 0]
    /\ wevs = [w \in Sessions |-> <<>>]
    /\ widx = [w \in Sessions |-> 1]
    /\ wrc = [w \in Sessions |-> 0]
    /\ wwake = [w \in Sessions |-> CHECK_INTERVAL]
    /\ wuntil = [w \in Sessions |-> 0]

\* the importance column is free text: a row may carry a tier the loop does
\* not know
TableRows ==
    {CreatedRow(d) : d \in Drafts}
    \cup {[CreatedRow(d) EXCEPT !.imp = "urgent"] : d \in Drafts}

\* one session has run main.py; the table holds created events; nobody acts
InitEngine ==
    /\ store \in [Ids -> TableRows]
    /\ nextId = MaxEvents + 1
    /\ now = T0
    /\ running = {1}
    /\ WorkerInit
    /\ upc = "idle"
    /\ uarg = NoArg
    /\ nops = 0
    /\ sent = [i \in Ids |-> 0]
    /\ total = [i \in Ids |-> 0]
    /\ fresh = [i \in Ids |-> "no"]
    /\ row0 = store
    /\ stop = {}
    /\ alerts = <<>>
    /\ pin = <<>>
    /\ pout = <<>>
    /\ faults = {}
    /\ last = NoStep

NextEngine == Worker \/ Advance

SpecEngine == InitEngine /\ [][NextEngine]_vars

-----------------------------------------------------------------------------
\* The control path (main.py): each action is one committed statement

\* INSERT of add_event: importance, repeat_count, isStop, next_notify and
\* pending_auto_mark take the column defaults
InsertedRow(d) == MkRow(d.start, d.rem, "normal", d.rep, 0, 0, 0, NULL, 0)

\* UPDATE events SET next_notify = ? of add_event
SetNextNotifyRow(r, d) ==
    [r EXCEPT !.nn = _compute_next_notify_iso(d.start, d.rem)]

\* UPDATE events SET importance, repeat_count, notified, isStop,
\* pending_auto_mark of the create handler
AttrRow(r, d) ==
    [r EXCEPT !.imp = d.imp, !.rc = 0, !.notified = 0, !.isStop = 0, !.pam = 0]

\* the UPDATE of the edit panel's save button
EditedRow(r, e) ==
    [r EXCEPT !.start = e.start, !.rem = e.rem, !.imp = e.imp, !.rep = e.rep,
              !.isStop = 0, !.notified = 0, !.rc = 0, !.pam = 0, !.nn = NULL]

\* update_event_field(id, "isStop", 1)
StopRow(r) == [r EXCEPT !.isStop = 1]

\* mark_notified
NotifiedRow(r) == [r EXCEPT !.notified = 1, !.nn = NULL, !.pam = 0]

\* what the parser hands to the create handler, what the edit form holds
UserDrafts ==
    [start : StartChoices, rem : {1}, imp : Importances,
     rep : {"none", "weekly", "every_2_ngay"}]
EditInputs ==
    [start : StartChoices, rem : {1}, imp : Importances, rep : {"none", "weekly"}]

\* "Phân tích câu (NLP)": db.add_event INSERT, commit
U_Insert(d) ==
    /\ upc = "idle"
    /\ nops < MaxOps
    /\ nextId <= MaxEvents
    /\ store' = [store EXCEPT ![nextId] = InsertedRow(d)]
    /\ nextId' = nextId + 1
    /\ upc' = "add_nn"
    /\ uarg' = [id |-> nextId, kind |-> "create", d |-> d]
    /\ nops' = nops + 1
    /\ fresh' = [fresh EXCEPT ![nextId] = "no"]
    /\ last' = <<"insert", nextId>>
    /\ UNCHANGED <<row0, xvars, now, running, wvars, hvars>>

\* db.add_event: UPDATE next_notify, commit
U_SetNextNotify ==
    /\ upc = "add_nn"
    /\ store' = Update(store, uarg.id, SetNextNotifyRow(store[uarg.id], uarg.d))
    /\ upc' = "attrs"
    /\ last' = <<"add_nn", uarg.id>>
    /\ UNCHANGED <<fresh, row0, xvars, nextId, now, running, wvars, uarg, nops, hvars>>

\* create handler: the follow-up UPDATE, commit
U_Attrs ==
    /\ upc = "attrs"
    /\ store' = Update(store, uarg.id, AttrRow(store[uarg.id], uarg.d))
    /\ upc' = "idle"
    /\ sent' = [sent EXCEPT ![uarg.id] = 0]
    /\ fresh' = [fresh EXCEPT ![uarg.id] = "created"]
    /\ last' = <<"created", uarg.id>>
    /\ UNCHANGED <<row0, xvars, nextId, now, running, wvars, uarg, nops, total>>

\* "Lưu thay đổi" in the edit panel of event i.  The panel renders (and offers
\* the button) only when the row's importance and repeat are among the select
\* boxes' options; a save for a row deleted meanwhile updates nothing.
U_EditSave(i, e) ==
    /\ upc = "idle"
    /\ nops < MaxOps
    /\ Exists(store, i)
    /\ store[i].imp \in Importances
    /\ store[i].rep \in EditCadences
    /\ store' = Update(store, i, EditedRow(store[i], e))
    /\ sent' = [sent EXCEPT ![i] = 0]
    /\ nops' = nops + 1
    /\ uarg' = [id |-> i, kind |-> "edit", d |-> e]
    /\ fresh' = [fresh EXCEPT ![i] =
                    IF store[i].isStop = 1 THEN "resumed" ELSE "edited"]
    /\ last' = <<"edit", i>>
    /\ UNCHANGED <<row0, xvars, nextId, now, running, wvars, upc, total>>

\* "Đã nhắc": update_event_field(id, "isStop", 1)
U_MarkStop(i) ==
    /\ upc = "idle"
    /\ nops < MaxOps
    /\ Exists(store, i)
    /\ store' = Update(store, i, StopRow(store[i]))
    /\ upc' = "mark"
    /\ uarg' = [id |-> i, kind |-> "mark"]
    /\ nops' = nops + 1
    /\ fresh' = [fresh EXCEPT ![i] = "no"]
    /\ last' = <<"stop", i>>
    /\ UNCHANGED <<row0, xvars, nextId, now, running, wvars, hvars>>

\* "Đã nhắc": mark_notified(id)
U_MarkNotified ==
    /\ upc = "mark"
    /\ store' = Update(store, uarg.id, NotifiedRow(store[uarg.id]))
    /\ upc' = "idle"
    /\ last' = <<"marked", uarg.id>>
    /\ UNCHANGED <<fresh, row0, xvars, nextId, now, running, wvars, uarg, nops, hvars>>

\* "Xóa": DELETE FROM events WHERE id = ?
U_Delete(i) ==
    /\ upc = "idle"
    /\ nops < MaxOps
    /\ Exists(store, i)
    /\ store' = [store EXCEPT ![i] = NoRow]
    /\ nops' = nops + 1
    /\ uarg' = [id |-> i, kind |-> "delete"]
    /\ fresh' = [fresh EXCEPT ![i] = "no"]
    /\ last' = <<"delete", i>>
    /\ UNCHANGED <<row0, xvars, nextId, now, running, wvars, upc, hvars>>

User ==
    \/ \E d \in UserDrafts : U_Insert(d)
    \/ U_SetNextNotify
    \/ U_Attrs
    \/ \E i \in Ids, e \in EditInputs : U_EditSave(i, e)
    \/ \E i \in Ids : U_MarkStop(i)
    \/ U_MarkNotified
    \/ \E i \in Ids : U_Delete(i)

\* rows left in the table by earlier runs of the create handler
StoredRows == {CreatedRow(d) : d \in UserDrafts}

\* one session has run main.py, on an empty table or on a table of rows
\* created earlier
InitApp ==
    /\ \/ store = [i \in Ids |-> NoRow] /\ nextId = 1
       \/ store \in [Ids -> StoredRows] /\ nextId = MaxEvents + 1
    /\ now = T0
    /\ running = {1}
    /\ WorkerInit
    /\ upc = "idle"
    /\ uarg = NoArg
    /\ sent = [i \in Ids |-> 0]
    /\ total = [i \in Ids |-> 0]
    /\ fresh = [i \in Ids |-> "no"]
    /\ row0 = store
    /\ stop = {}
    /\ alerts = <<>>
    /\ pin = <<>>
    /\ pout = <<>>
    /\ faults = {}
    /\ last = NoStep

Init == InitApp /\ nops = 0

Next == Worker \/ Advance \/ User

Spec == Init /\ [][Next]_vars

-----------------------------------------------------------------------------
\* The "Đã nhắc" button beside the engine: one press, a handler that runs to
\* its end, a thread that keeps ticking

InitMark == InitApp /\ nops = MaxOps - 1

NextMark == Worker \/ Advance \/ (\E i \in Ids : U_MarkStop(i)) \/ U_MarkNotified

SpecMark ==
    /\ InitMark /\ [][NextMark]_vars
    /\ WF_vars(Worker) /\ WF_vars(Advance) /\ WF_vars(U_MarkNotified)

-----------------------------------------------------------------------------

\* One handler against one tick: the clock stands still, so the reminder
\* thread runs a single tick (its wait never runs out)

\* all handlers the bound allows but one count as used
InitOneOp == InitApp /\ nops = MaxOps - 1

NextOneOp == Worker \/ User

SpecOneOp == InitOneOp /\ [][NextOneOp]_vars

-----------------------------------------------------------------------------
\* Several browser sessions: st.session_state is per session, so the first
\* script run of every session finds no "reminder_started" key and starts a
\* reminder thread; a rerun of the same session starts none

U_ScriptRun(s) ==
    /\ s \notin running
    /\ running' = running \cup {s}
    /\ last' = <<"session", s>>
    /\ UNCHANGED <<store, nextId, now, wvars, uvars, hvars, fresh, row0, xvars>>

SessionRows ==
    {CreatedRow(d) : d \in {x \in Drafts : x.rem = 1 /\ x.rep \in {"none", "weekly"}}}

InitSessions ==
    /\ store \in [Ids -> SessionRows]
    /\ nextId = MaxEvents + 1
    /\ now = T0
    /\ running = {1}
    /\ WorkerInit
    /\ upc = "idle"
    /\ uarg = NoArg
    /\ nops = 0
    /\ sent = [i \in Ids |-> 0]
    /\ total = [i \in Ids |-> 0]
    /\ fresh = [i \in Ids |-> "no"]
    /\ row0 = store
    /\ stop = {}
    /\ alerts = <<>>
    /\ pin = <<>>
    /\ pout = <<>>
    /\ faults = {}
    /\ last = NoStep

NextSessions == Worker \/ Advance \/ \E s \in Sessions : U_ScriptRun(s)

SpecSessions == InitSessions /\ [][NextSessions]_vars

-----------------------------------------------------------------------------
\* The stop signal: start_reminder_thread hands the Event to its caller, who
\* may set it at any time

SetStop(s) ==
    /\ s \in running
    /\ s \notin stop
    /\ stop' = stop \cup {s}
    /\ last' = <<"stop_event", s>>
    /\ UNCHANGED <<store, nextId, now, running, wvars, uvars, hvars, fresh, row0, faults,
                   alerts, pvars>>

\* the wait returns and the while condition finds stop_event set: the loop
\* and the thread end
W_Exit(w) ==
    /\ w \in running
    /\ wpc[w] = "sleep"
    /\ WaitOver(w)
    /\ w \in stop
    /\ wpc' = [wpc EXCEPT ![w] = "done"]
    /\ last' = NoStep
    /\ UNCHANGED <<store, nextId, now, running, wnow, wevs, widx, wrc, wwake,
                   wuntil, uvars, hvars, fresh, row0, xvars>>

StopRows ==
    {CreatedRow(d) : d \in {x \in Drafts : x.rem = 0 /\ x.rep \in {"none", "weekly"}}}

InitStop ==
    /\ store \in [Ids -> StopRows]
    /\ nextId = MaxEvents + 1
    /\ now = T0
    /\ running = {1}
    /\ WorkerInit
    /\ upc = "idle"
    /\ uarg = NoArg
    /\ nops = 0
    /\ sent = [i \in Ids |-> 0]
    /\ total = [i \in Ids |-> 0]
    /\ fresh = [i \in Ids |-> "no"]
    /\ row0 = store
    /\ stop = {}
    /\ alerts = <<>>
    /\ pin = <<>>
    /\ pout = <<>>
    /\ faults = {}
    /\ last = NoStep

Thread(w) ==
    W_Read(w) \/ W_Eval(w) \/ W_Inc(w) \/ W_Sel(w) \/ W_Fin(w) \/ W_Sleep(w)
    \/ W_Exit(w)

NextStop ==
    \/ \E w \in Sessions : Thread(w)
    \/ Advance
    \/ \E s \in Sessions : SetStop(s)

\* a started thread is scheduled again and again; nothing makes time pass
SpecStop ==
    InitStop /\ [][NextStop]_vars /\ \A w \in Sessions : WF_vars(Thread(w))

-----------------------------------------------------------------------------
\* The alert feed on its own: the fire branch appends, the page reads

AlertRows ==
    {CreatedRow(d) : d \in {x \in Drafts : x.rem = 0 /\ x.rep = "none"
                                          /\ x.start = T0 + SecPerMin
                                          /\ x.imp \in {"normal", "critical"}}}

\* the call made by the fire branch of reminder_loop
A_Add(r) ==
    /\ Len(alerts) < MaxAlerts
    /\ alerts' = add_streamlit_alert(alerts, r)
    /\ pin' = <<"add", r>>
    /\ last' = NoStep
    /\ UNCHANGED <<store, nextId, now, running, wvars, uvars, hvars, fresh, row0, faults,
                   stop, pout>>

\* the call made by main.py when it renders the page
A_Get ==
    /\ pout' = get_streamlit_alerts(alerts)
    /\ pin' = <<"get">>
    /\ last' = NoStep
    /\ UNCHANGED <<store, nextId, now, running, wvars, uvars, hvars, fresh, row0, faults,
                   stop, alerts>>

InitAlerts ==
    /\ store \in [Ids -> AlertRows]
    /\ nextId = MaxEvents + 1
    /\ now = T0
    /\ running = {}
    /\ WorkerInit
    /\ upc = "idle"
    /\ uarg = NoArg
    /\ nops = 0
    /\ sent = [i \in Ids |-> 0]
    /\ total = [i \in Ids |-> 0]
    /\ fresh = [i \in Ids |-> "no"]
    /\ row0 = store
    /\ stop = {}
    /\ alerts = <<>>
    /\ pin = <<>>
    /\ pout = <<>>
    /\ faults = {}
    /\ last = NoStep

NextAlerts == (\E r \in AlertRows : A_Add(r)) \/ A_Get

SpecAlerts == InitAlerts /\ [][NextAlerts]_vars

-----------------------------------------------------------------------------
\* db.update_event_field on a table of several rows

allowed ==
    {"event", "start_time", "end_time", "location", "reminder_minutes",
     "notified", "importance", "repeat_count", "isStop", "next_notify",
     "repeat", "pending_auto_mark"}

\* the field of a model row that holds a column of the events table
Column(f) ==
    CASE f = "event" -> "event"
      [] f = "start_time" -> "start"
      [] f = "end_time" -> "end"
      [] f = "location" -> "loc"
      [] f = "reminder_minutes" -> "rem"
      [] f = "notified" -> "notified"
      [] f = "importance" -> "imp"
      [] f = "repeat_count" -> "rc"
      [] f = "isStop" -> "isStop"
      [] f = "next_notify" -> "nn"
      [] f = "repeat" -> "rep"
      [] f = "pending_auto_mark" -> "pam"

\* variant: the statement also clears the notified flag
SetField_reset(r, f, v) == [r EXCEPT ![Column(f)] = v, !.notified = 0]

\* UPDATE events SET {field} = ?
SetField(r, f, v) == [r EXCEPT ![Column(f)] = v]

FieldNames == allowed \cup {"id", "title", "is_stopped"}

\* values a caller passes for a column: text for the text columns, numbers
\* for the others
FieldValues(f) ==
    IF f \in {"event", "importance", "repeat"} THEN {"important", "weekly"}
    ELSE {1, T0}

update_event_field(i, f, v) ==
    /\ nops < MaxOps
    /\ nops' = nops + 1
    /\ pin' = <<i, f, v>>
    /\ IF f \notin allowed
       THEN \* raise ValueError
            /\ pout' = "ValueError"
            /\ UNCHANGED store
       ELSE /\ store' = Update(store, i, SetField(store[i], f, v))
            /\ pout' = "ok"
    /\ last' = NoStep
    /\ UNCHANGED <<nextId, now, running, wvars, upc, uarg, hvars, fresh, row0, faults,
                   stop, alerts>>

UpdateRows ==
    {NoRow} \cup
    {CreatedRow(d) : d \in {x \in Drafts : x.rem = 0 /\ x.rep = "none"
                                          /\ x.imp = "normal"}}

InitUpdate ==
    /\ store \in [BatchIds -> UpdateRows]
    /\ nextId = MaxBatch + 1
    /\ now = T0
    /\ running = {}
    /\ WorkerInit
    /\ upc = "idle"
    /\ uarg = NoArg
    /\ nops = 0
    /\ sent = [i \in BatchIds |-> 0]
    /\ total = [i \in BatchIds |-> 0]
    /\ fresh = [i \in BatchIds |-> "no"]
    /\ row0 = store
    /\ stop = {}
    /\ alerts = <<>>
    /\ pin = <<>>
    /\ pout = <<>>
    /\ faults = {}
    /\ last = NoStep

NextUpdate ==
    \E i \in BatchIds, f \in FieldNames :
        \E v \in FieldValues(f) : update_event_field(i, f, v)

SpecUpdate == InitUpdate /\ [][NextUpdate]_vars

-----------------------------------------------------------------------------
\* Failures inside a tick: a store statement raises (sqlite3 error), the
\* notification backend raises, list_events raises.  The clock stands still,
\* so the thread runs a single tick.

\* the event reaches the main notification branch
Fires(ev, nowl) ==
    /\ ev.isStop # 1
    /\ ~(ev.pam = 1 /\ secs_until(ev, nowl) <= 0)
    /\ Due(ev, nowl)

\* variant: send_notification lets the backend's exception through
send_notification_uncaught(backendRaises) ==
    IF backendRaises THEN "raised" ELSE "returned"

\* send_notification: try notification.notify, except Exception: print
send_notification(backendRaises) == "returned"

\* variant: the except clause leaves the for loop
except_break(idx, n) == n + 1

\* except Exception: print, continue -- the index of the event handled next
except_continue(idx, n) == idx + 1

\* a statement inside the try block raises while the thread handles an event
W_Raise(w) ==
    /\ wpc[w] \in {"loop", "inc", "sel", "fin"}
    /\ widx[w] <= Len(wevs[w])
    /\ wpc' = [wpc EXCEPT ![w] = "loop"]
    /\ widx' = [widx EXCEPT ![w] = except_continue(@, Len(wevs[w]))]
    /\ wrc' = [wrc EXCEPT ![w] = 0]
    /\ faults' = faults \cup {<<"raised", Cur(w).id>>}
    /\ last' = NoStep
    /\ UNCHANGED <<store, nextId, now, running, wnow, wevs, wwake, wuntil, uvars,
                   hvars, fresh, row0, stop, alerts, pvars>>

\* the fire branch with a notification backend that raises
W_NotifyFail(w) ==
    /\ wpc[w] = "loop"
    /\ widx[w] <= Len(wevs[w])
    /\ Fires(Cur(w).ev, wnow[w])
    /\ faults' = faults \cup {<<"undelivered", Cur(w).id>>}
    /\ IF send_notification(TRUE) = "raised"
       THEN /\ widx' = [widx EXCEPT ![w] = except_continue(@, Len(wevs[w]))]
            /\ UNCHANGED <<wpc, sent, total, alerts>>
       ELSE /\ sent' = [sent EXCEPT ![Cur(w).id] = @ + 1]
            /\ total' = [total EXCEPT ![Cur(w).id] = @ + 1]
            /\ alerts' = add_streamlit_alert(alerts, Cur(w).ev)
            /\ wpc' = [wpc EXCEPT ![w] = "inc"]
            /\ UNCHANGED widx
    /\ last' = NoStep
    /\ UNCHANGED <<store, nextId, now, running, wnow, wevs, wrc, wwake, wuntil,
                   uvars, fresh, row0, stop, pvars>>

\* list_events() at the top of the while loop raises: the statement is
\* outside the try block, the exception leaves reminder_loop and the thread ends
W_ReadFail(w) ==
    /\ w \in running
    /\ wpc[w] = "sleep"
    /\ WaitOver(w)
    /\ w \notin stop
    /\ wpc' = [wpc EXCEPT ![w] = "dead"]
    /\ faults' = faults \cup {<<"crash", w>>}
    /\ last' = NoStep
    /\ UNCHANGED <<store, nextId, now, running, wnow, wevs, widx, wrc, wwake,
                   wuntil, uvars, hvars, fresh, row0, stop, alerts, pvars>>

FaultRows ==
    {CreatedRow(d) : d \in {x \in Drafts : x.rem = 0 /\ x.rep \in {"none", "weekly"}
                                          /\ x.imp \in {"normal", "important"}}}

InitFaults ==
    /\ store \in [BatchIds -> FaultRows]
    /\ nextId = MaxBatch + 1
    /\ now = T0
    /\ running = {1}
    /\ WorkerInit
    /\ upc = "idle"
    /\ uarg = NoArg
    /\ nops = 0
    /\ sent = [i \in BatchIds |-> 0]
    /\ total = [i \in BatchIds |-> 0]
    /\ fresh = [i \in BatchIds |-> "no"]
    /\ row0 = store
    /\ stop = {}
    /\ alerts = <<>>
    /\ pin = <<>>
    /\ pout = <<>>
    /\ faults = {}
    /\ last = NoStep

NextFaults ==
    \/ Worker
    \/ \E w \in Sessions : W_Raise(w) \/ W_NotifyFail(w) \/ W_ReadFail(w)

SpecFaults == InitFaults /\ [][NextFaults]_vars

-----------------------------------------------------------------------------
\* Ticks that go on after a failure: one store statement raises once
\* (a transient sqlite3 error), the clock runs, the thread keeps ticking.

W_RaiseOnce(w) ==
    /\ faults = {}
    /\ W_Raise(w)

LiveRows ==
    {CreatedRow(d) : d \in {x \in Drafts : x.rep = "none"
                                          /\ x.imp \in {"normal", "important"}}}

InitLive ==
    /\ store \in [Ids -> LiveRows]
    /\ nextId = MaxEvents + 1
    /\ now = T0
    /\ running = {1}
    /\ WorkerInit
    /\ upc = "idle"
    /\ uarg = NoArg
    /\ nops = 0
    /\ sent = [i \in Ids |-> 0]
    /\ total = [i \in Ids |-> 0]
    /\ fresh = [i \in Ids |-> "no"]
    /\ row0 = store
    /\ stop = {}
    /\ alerts = <<>>
    /\ pin = <<>>
    /\ pout = <<>>
    /\ faults = {}
    /\ last = NoStep

NextLive == Worker \/ Advance \/ \E w \in Sessions : W_RaiseOnce(w)

\* the thread is scheduled and time passes
SpecLive ==
    InitLive /\ [][NextLive]_vars /\ WF_vars(Worker) /\ WF_vars(Advance)

-----------------------------------------------------------------------------

\* nlp.norm.  A text is a sequence of tokens separated by single blanks; a
\* token is a word, a number, a clock time, a punctuation mark or a fixed
\* phrase that no table key cuts across.  The tables are the entries of
\* ASCII_MAP and VN_NUM that can match a text over RawTokens.

RawTokens ==
    {"Hop", "cuoi", "tuan", "hai", "mot", ",", "mai", "15/11/2025", "14:00",
     "15:30", "10h", "-", "5 phút nữa", "tầm chiều"}

\* str.lower()
lower(tok) == IF tok = "Hop" THEN "hop" ELSE tok

\* re.sub(r'\bm[ôo]́?t\b', '__MOT__', t)
protect_mot(tok) == IF tok = "mot" THEN "__MOT__" ELSE tok

\* ASCII_MAP, longest key first: <<key, value>> as token sequences
ASCII_MAP ==
    << << <<"cuối", "tuần">>, <<"cuối", "tuần">> >>,
       << <<"cuoi", "tuan">>, <<"cuối", "tuần">> >>,
       << <<"hop">>, <<"họp">> >> >>

\* VN_NUM, longest key first
VN_NUM == << << <<"hai">>, <<"2">> >> >>

\* re.sub(rf'(?<!\w){key}(?!\w)', value, txt): every occurrence of the key
\* as whole, adjacent words, left to right
RECURSIVE re_sub(_, _, _)
re_sub(key, value, txt) ==
    IF Len(txt) < Len(key) THEN txt
    ELSE IF SubSeq(txt, 1, Len(key)) = key
         THEN value \o re_sub(key, value, SubSeq(txt, Len(key) + 1, Len(txt)))
         ELSE <<txt[1]>> \o re_sub(key, value, SubSeq(txt, 2, Len(txt)))

\* the loop over the sorted keys of a table
RECURSIVE apply_table(_, _, _)
apply_table(table, k, txt) ==
    IF k > Len(table) THEN txt
    ELSE apply_table(table, k + 1, re_sub(table[k][1], table[k][2], txt))

apply_ascii_map(txt) == apply_table(ASCII_MAP, 1, txt)

replace_vn_num(txt) == apply_table(VN_NUM, 1, txt)

\* re.sub(r"[,;()]+", " ", t) followed by re.sub(r"\s+", " ", t).strip()
RECURSIVE strip_punct(_)
strip_punct(txt) ==
    IF txt = <<>> THEN <<>>
    ELSE IF txt[1] = "," THEN strip_punct(Tail(txt))
         ELSE <<txt[1]>> \o strip_punct(Tail(txt))

\* t.replace('__MOT__', 'mốt')
restore_mot(tok) == IF tok = "__MOT__" THEN "mốt" ELSE tok

norm(raw) ==
    LET t1 == [k \in 1..Len(raw) |-> protect_mot(lower(raw[k]))]
        t2 == replace_vn_num(apply_ascii_map(t1))
        t3 == strip_punct(t2)
    IN  [k \in 1..Len(t3) |-> restore_mot(t3[k])]

RECURSIVE TextsUpTo(_)
TextsUpTo(n) ==
    IF n = 0 THEN {<<>>}
    ELSE TextsUpTo(n - 1)
         \cup {Append(t, x) : t \in {u \in TextsUpTo(n - 1) : Len(u) = n - 1},
                              x \in RawTokens}

Texts == TextsUpTo(MaxTokens) \ {<<>>}

\* the engine is not running and the table is empty
Quiet ==
    /\ store = [i \in Ids |-> NoRow]
    /\ nextId = 1
    /\ running = {}
    /\ WorkerInit
    /\ upc = "idle"
    /\ uarg = NoArg
    /\ nops = 0
    /\ sent = [i \in Ids |-> 0]
    /\ total = [i \in Ids |-> 0]
    /\ fresh = [i \in Ids |-> "no"]
    /\ row0 = store
    /\ stop = {}
    /\ alerts = <<>>
    /\ faults = {}
    /\ last = NoStep

\* norm applied to a text
N_Norm ==
    /\ pout = <<>>
    /\ pout' = <<norm(pin)>>
    /\ UNCHANGED <<pin, evars>>

\* norm applied to its own result
N_Again ==
    /\ Len(pout) = 1
    /\ pout' = Append(pout, norm(pout[1]))
    /\ UNCHANGED <<pin, evars>>

InitNorm ==
    /\ Quiet
    /\ now = T0
    /\ pin \in Texts
    /\ pout = <<>>

NextNorm == N_Norm \/ N_Again

SpecNorm == InitNorm /\ [][NextNorm]_vars

-----------------------------------------------------------------------------
\* Ticks late in a minute: the engine alone, started when the clock shows
\* second 0 or second 58

WakeSeconds == {0, 58}

InitWake ==
    /\ store \in [Ids -> TableRows]
    /\ nextId = MaxEvents + 1
    /\ now \in {T0 + s : s \in WakeSeconds}
    /\ running = {1}
    /\ WorkerInit
    /\ upc = "idle"
    /\ uarg = NoArg
    /\ nops = 0
    /\ sent = [i \in Ids |-> 0]
    /\ total = [i \in Ids |-> 0]
    /\ fresh = [i \in Ids |-> "no"]
    /\ row0 = store
    /\ stop = {}
    /\ alerts = <<>>
    /\ pin = <<>>
    /\ pout = <<>>
    /\ faults = {}
    /\ last = NoStep

NextWake == Worker \/ Advance

SpecWake == InitWake /\ [][NextWake]_vars

-----------------------------------------------------------------------------

\* Occurrences missed while no engine was running: the table holds recurring
\* events whose start lies up to MaxMissed days back

LateRows ==
    {CreatedRow([start |-> T0 - (k * SecPerDay) - (10 * SecPerMin), rem |-> 0,
                 imp |-> imp, rep |-> rep]) :
        k \in 0..MaxMissed, imp \in {"normal", "important"},
        rep \in {"daily", "weekly"}}

InitLate ==
    /\ store \in [Ids -> LateRows]
    /\ nextId = MaxEvents + 1
    /\ now = T0
    /\ running = {1}
    /\ WorkerInit
    /\ upc = "idle"
    /\ uarg = NoArg
    /\ nops = 0
    /\ sent = [i \in Ids |-> 0]
    /\ total = [i \in Ids |-> 0]
    /\ fresh = [i \in Ids |-> "no"]
    /\ row0 = store
    /\ stop = {}
    /\ alerts = <<>>
    /\ pin = <<>>
    /\ pout = <<>>
    /\ faults = {}
    /\ last = NoStep

NextLate == Worker \/ Advance

SpecLate == InitLate /\ [][NextLate]_vars

-----------------------------------------------------------------------------

\* The month increment: the roll of a monthly event at its cap, and the date
\* extract_advanced_relative_date gives for "tháng sau"

\* y, m = now.year, now.month + 1 (year rollover); d = min(now.day, 28);
\* date(y, m, d), as a day index
thang_sau(today) ==
    LET ymd == YMD(today)
        y == IF ymd[2] + 1 > 12 THEN ymd[1] + 1 ELSE ymd[1]
        m == IF ymd[2] + 1 > 12 THEN 1 ELSE ymd[2] + 1
    IN  DaysBefore(y, m) + Min(ymd[3], 28) - 1

\* a monthly event that has had its last notification, read by the tick
MonthlyRow(start) == MkRow(start, 0, "normal", "monthly", 0, 1, 0, start, 0)

\* the days an occurrence, or the day of the call, may fall on
MonthDays == 0..MaxDay

\* _schedule_next_occurrence on a monthly event
R_Roll ==
    /\ pout = <<>>
    /\ pout' = <<"roll", RollRow(MonthlyRow(pin[1]), MonthlyRow(pin[1])).start>>
    /\ UNCHANGED <<pin, evars>>

\* the "tháng sau" branch of extract_advanced_relative_date
R_ThangSau ==
    /\ pout = <<>>
    /\ pout' = <<"thang sau", thang_sau(pin[1] \div SecPerDay)>>
    /\ UNCHANGED <<pin, evars>>

InitMonth ==
    /\ Quiet
    /\ now = T0
    /\ pin \in {<<(d * SecPerDay) + (14 * SecPerHour) + (30 * SecPerMin)>> :
                  d \in MonthDays}
    /\ pout = <<>>

NextMonth == R_Roll \/ R_ThangSau

SpecMonth == InitMonth /\ [][NextMonth]_vars

-----------------------------------------------------------------------------
\* nlp.parse_text: resolution of start_time and end_time.  The extractors read
\* the normalized text; each regular expression is given by the tokens of
\* RawTokens (after norm) that it matches.

NoDraft == [absent |-> TRUE]

Has(t, S) == \E k \in 1..Len(t) : t[k] \in S

FirstIn(t, S) ==
    t[CHOOSE k \in 1..Len(t) : t[k] \in S /\ \A j \in 1..(k - 1) : t[j] \notin S]

\* (\d+)\s*(phút|phut|p)\s*nữa: the minutes of the offset
RelMinutes == [tok \in {"5 phút nữa"} |-> 5]

\* \b(\d{1,2}):(\d{1,2})\b
ClockOf == [tok \in {"14:00", "15:30"} |->
              IF tok = "14:00" THEN <<14, 0>> ELSE <<15, 30>>]

\* \b(\d{1,2})\s*(?:h|giờ)\b
HourOf == [tok \in {"10h"} |-> 10]

\* \s*(\d{1,2})\b at the start of the token that follows the hour
LeadDigits ==
    [tok \in {"2", "15/11/2025", "14:00", "15:30", "5 phút nữa"} |->
        CASE tok = "2" -> 2
          [] tok = "15/11/2025" -> 15
          [] tok = "14:00" -> 14
          [] tok = "15:30" -> 15
          [] OTHER -> 5]

\* the time-of-day words of extract_time: no token holds sáng or trưa
tod_adjust(h, t) ==
    IF Has(t, {"tầm chiều"}) /\ h < 12 THEN h + 12 ELSE h

\* <<h, mn>>, or <<>> for None
extract_time(t) ==
    LET hm(k) == k < Len(t) /\ t[k] \in DOMAIN HourOf
                 /\ t[k + 1] \in DOMAIN LeadDigits
    IN  IF Has(t, DOMAIN ClockOf) THEN ClockOf[FirstIn(t, DOMAIN ClockOf)]
        ELSE IF \E k \in 1..Len(t) : hm(k)
             THEN LET k == CHOOSE k \in 1..Len(t) :
                             hm(k) /\ \A j \in 1..(k - 1) : ~hm(j)
                  IN  <<tod_adjust(HourOf[t[k]], t), LeadDigits[t[k + 1]]>>
        ELSE IF Has(t, DOMAIN HourOf)
             THEN <<tod_adjust(HourOf[FirstIn(t, DOMAIN HourOf)], t), 0>>
        ELSE <<>>

guess_natural_time(t) ==
    IF Has(t, {"tầm chiều"}) THEN <<15, 0>> ELSE <<>>

\* date.weekday() of a day index, Monday = 0
weekday(dayIdx) == (dayIdx + EpochWeekday) % DaysPerWeek

\* date(y, m, d) as a day index
date(y, m, d) == DaysBefore(y, m) + d - 1

\* two adjacent tokens
Adjacent(t, a, b) == \E k \in 1..(Len(t) - 1) : t[k] = a /\ t[k + 1] = b

\* NULL for None; "tuần sau" and "tháng sau" do not survive norm (sau -> 6)
extract_advanced_relative_date(t, today) ==
    LET wd == weekday(today)
    IN  IF Adjacent(t, "cuối", "tuần") \/ Adjacent(t, "cuoi", "tuan")
        THEN today + (6 - wd)
        \* r'đầu tuần|dau tuan'
        ELSE IF Adjacent(t, "dau", "tuan")
        THEN today + (IF wd = 0 THEN DaysPerWeek ELSE DaysPerWeek - wd)
        ELSE NULL

\* the loop over WEEKDAY with its test "k in t": the value of the first key,
\* in the order of the dict, that is a substring of the text (the key "tu" is
\* inside tuan and tuần); NULL when there is none
WEEKDAY(t) ==
    IF Has(t, {"th2"}) THEN 0
    ELSE IF Has(t, {"thu tu", "tuan", "tuần"}) THEN 2
    ELSE IF Has(t, {"cn"}) THEN 6
    ELSE NULL

\* NULL for None
extract_date(t, today) ==
    LET adv == extract_advanced_relative_date(t, today)
        delta == (WEEKDAY(t) - weekday(today) + DaysPerWeek) % DaysPerWeek
    IN  IF adv # NULL THEN adv
        ELSE IF Has(t, {"mai"}) THEN today + 1
        ELSE IF Has(t, {"mốt"}) THEN today + 2
        ELSE IF WEEKDAY(t) # NULL
             THEN today + (IF delta = 0 THEN DaysPerWeek ELSE delta)
        ELSE IF Has(t, {"15/11/2025"}) THEN date(2025, 11, 15)
        ELSE NULL

\* datetime.combine(d, time(h, mn)); NULL when time() raises
combine(d, hm) ==
    IF hm[1] \in 0..23 /\ hm[2] \in 0..59
    THEN (d * SecPerDay) + (hm[1] * SecPerHour) + (hm[2] * SecPerMin)
    ELSE NULL

\* variant: the fallback parse succeeds and every field comes from default
dateparser_parse_default(raw, nowl) == nowl

\* dateparser.parse(raw, languages=["vi"], default=now) inside try/except:
\* dateparser is dateutil.parser, whose parse() has no keyword "languages";
\* the call raises TypeError, the except clause leaves dt_start None
dateparser_parse(raw, nowl) == NULL

\* dt_start before the past-time correction, NULL for None
resolve_start(raw, nowl) ==
    LET t == norm(raw)
        today == nowl \div SecPerDay
        adv == extract_advanced_relative_date(t, today)
        xd == extract_date(t, today)
        d == IF adv # NULL THEN adv ELSE IF xd # NULL THEN xd ELSE today
        nt == guess_natural_time(t)
        tm == extract_time(t)
    IN  IF Has(t, DOMAIN RelMinutes)
        THEN nowl + (RelMinutes[FirstIn(t, DOMAIN RelMinutes)] * SecPerMin)
        ELSE IF tm # <<>> THEN combine(d, tm)
        ELSE IF nt # <<>> THEN combine(d, nt)
        ELSE dateparser_parse(raw, nowl)

\* if dt_start < now - timedelta(seconds=5): dt_start += timedelta(days=1)
past_correction(dt, nowl) == IF dt < nowl - 5 THEN dt + SecPerDay ELSE dt

parse_text(raw, nowl) ==
    LET dt_start == resolve_start(raw, nowl)
    IN  IF dt_start = NULL THEN NoDraft
        ELSE [start_time |-> past_correction(_floor_to_min(dt_start), nowl),
              end_time |-> NULL,
              repeat_count |-> 0,
              notified |-> 0,
              isStop |-> 0]

\* datetime.now(LOCAL_TZ) of the call: early and late in a day of January,
\* and on 20/11/2025
ParseNows ==
    {T0, T0 + (15 * SecPerHour), (date(2025, 11, 20) * SecPerDay) + SecPerHour}

P_Parse ==
    /\ pout = <<>>
    /\ pout' = <<parse_text(pin, now)>>
    /\ UNCHANGED <<pin, evars>>

InitParse ==
    /\ Quiet
    /\ now \in ParseNows
    /\ pin \in Texts
    /\ pout = <<>>

NextParse == P_Parse

SpecParse == InitParse /\ [][NextParse]_vars

-----------------------------------------------------------------------------
\* extract_date on normalized texts that name a day of the week, called on
\* each day of a week

DateTokens == {"cuối", "tuần", "dau", "tuan", "th2", "thu tu", "cn", "họp"}

DateTexts ==
    {<<x>> : x \in DateTokens} \cup {<<x, y>> : x \in DateTokens, y \in DateTokens}

D_Extract ==
    /\ pout = <<>>
    /\ pout' = <<extract_date(pin, now \div SecPerDay)>>
    /\ UNCHANGED <<pin, evars>>

InitDates ==
    /\ Quiet
    /\ now \in {T0 + (k * SecPerDay) : k \in 0..(DaysPerWeek - 1)}
    /\ pin \in DateTexts
    /\ pout = <<>>

NextDates == D_Extract

SpecDates == InitDates /\ [][NextDates]_vars

-----------------------------------------------------------------------------
\* Properties of the engine alone (SpecEngine)

\* the cap the specification gives each importance tier (unknown tier: 1)
SpecCap(imp) ==
    IF imp = "critical" THEN 3 ELSE IF imp = "important" THEN 2 ELSE 1

Cap(i) == SpecCap(store[i].imp)

\* a reminder thread is between the notification for id i and its last write
InFlight(i) ==
    \E w \in Sessions : wpc[w] \in {"inc", "sel", "fin"} /\ Cur(w).id = i

\* a reminder thread has notified for id i and not yet counted it
Uncounted(i) ==
    IF \E w \in Sessions : wpc[w] = "inc" /\ Cur(w).id = i THEN 1 ELSE 0

Closed(r) == r.isStop = 1 /\ r.notified = 1 /\ r.nn = NULL

\* C1: a non-recurring event with cap k is never notified more than k times;
\* once the k-th notification is out and its tick has finished with the event
\* the row is closed (is_stopped, notified, next_notify absent), and a closed
\* row has had exactly k notifications.
C1_ClosesAtCap ==
    \A i \in Ids : Exists(store, i) /\ store[i].rep = "none" =>
        /\ sent[i] <= Cap(i)
        /\ (sent[i] = Cap(i) /\ ~InFlight(i) => Closed(store[i]))
        /\ (store[i].isStop = 1 => Closed(store[i]) /\ sent[i] = Cap(i))

C1_Witness ==
    \E i \in Ids : /\ Exists(store, i) /\ store[i].rep = "none"
                   /\ store[i].imp = "important"
                   /\ Closed(store[i]) /\ sent[i] = 2 /\ wpc[1] = "sleep"

\* C2: a weekly critical event is notified at most 3 times per occurrence and
\* stays open; the step that ends the third notification moves start forward
\* by exactly 7 days (604800 s) and leaves repeat_count 0, notified false and
\* next_notify = floor_to_minute(new start - lead); start moves at no other time.
C2_WeeklyCriticalRoll ==
    /\ [](\A i \in Ids : Exists(store, i) /\ store[i].rep = "weekly"
                         /\ store[i].imp = "critical" =>
            /\ store[i].isStop = 0
            /\ sent[i] <= 3
            /\ (sent[i] = 3 => InFlight(i)))
    /\ [][\A i \in Ids : Exists(store, i) /\ store[i].rep = "weekly"
                         /\ store[i].imp = "critical"
                         /\ (store'[i].start # store[i].start
                             \/ (sent[i] = 3 /\ ~InFlight(i)')) =>
            /\ sent[i] = 3
            /\ store'[i].start = store[i].start + 604800
            /\ store'[i].rc = 0
            /\ store'[i].notified = 0
            /\ store'[i].isStop = 0
            /\ store'[i].nn = (store'[i].start - (store[i].rem * 60))
                              - ((store'[i].start - (store[i].rem * 60)) % 60)]_vars

C2_Witness ==
    \E i \in Ids : /\ Exists(store, i) /\ store[i].rep = "weekly"
                   /\ store[i].imp = "critical"
                   /\ store[i].start > T0 + 500000
                   /\ store[i].rc = 0 /\ store[i].isStop = 0

\* C3: repeat_count and the notifications of an occurrence never exceed the
\* cap of the event's importance; every notification is counted by exactly one
\* increment of repeat_count; a notification is sent only from a row read with
\* next_notify <= now_local and repeat_count below the cap.
C3_CapRespected ==
    /\ [](\A i \in Ids : Exists(store, i) =>
            /\ store[i].rc <= Cap(i)
            /\ sent[i] <= Cap(i)
            /\ sent[i] = store[i].rc + Uncounted(i))
    /\ [][\A i \in Ids : Exists(store, i) /\ sent'[i] = sent[i] + 1 =>
            \E w \in Sessions :
                /\ wpc[w] = "loop" /\ Cur(w).id = i
                /\ next_notify(store[i]) <= wnow[w]
                /\ store[i].rc < Cap(i)]_vars

C3_Witness ==
    \E i \in Ids : /\ Exists(store, i) /\ store[i].imp = "critical"
                   /\ store[i].rc = 3 /\ sent[i] = 3

\* C4: a notification that leaves repeat_count below the cap stores
\* next_notify = now_local + 60 s and leaves the event open.
C4_RenagAfterSixtySeconds ==
    [][\A w \in Sessions :
          wpc[w] = "fin" /\ wpc'[w] = "loop" /\ wrc[w] < SpecCap(Cur(w).ev.imp) =>
             /\ store'[Cur(w).id].nn = wnow[w] + 60
             /\ store'[Cur(w).id].isStop = 0]_vars

-----------------------------------------------------------------------------
\* Properties of the control path running beside the engine (Spec)

\* what reminder_loop reads from a row
EngineView(r) ==
    [isStop |-> r.isStop, next_notify |-> next_notify(r), start |-> start_dt(r),
     rem |-> r.rem, imp |-> r.imp, rep |-> r.rep, rc |-> r.rc, pam |-> r.pam]

\* the row the create path stores for the draft values a row carries
AsCreated(r) ==
    CreatedRow([start |-> r.start, rem |-> r.rem, imp |-> r.imp, rep |-> r.rep])

\* repeat_count counts only notifications sent since the row was reset, and
\* these stay within the cap
CountsOwnFires(i) ==
    /\ store[i].rc <= sent[i]
    /\ sent[i] <= Cap(i)
    /\ sent[i] <= store[i].rc + Uncounted(i)

\* C5: saving the edit panel for a closed event leaves is_stopped=false,
\* repeat_count=0, notified=false, pending_auto_mark=0, and from then on the
\* engine can notify for it up to its full cap: repeat_count counts only the
\* notifications sent since the resume.
C5_ResumeReopens ==
    /\ [][\A i \in Ids : last' = <<"edit", i>> /\ store[i].isStop = 1 =>
            /\ store'[i].isStop = 0 /\ store'[i].rc = 0
            /\ store'[i].notified = 0 /\ store'[i].pam = 0]_vars
    /\ [](\A i \in Ids : Exists(store, i) /\ fresh[i] = "resumed" =>
            CountsOwnFires(i))

\* C6: an edit leaves a row the engine reads exactly as it reads the row the
\* create path stores for the same values, and from then on the engine treats
\* it as it treats a created row: at most cap notifications, each counted once.
C6_EditAsNew ==
    /\ [][\A i \in Ids : last' = <<"edit", i>> =>
            EngineView(store'[i]) = EngineView(AsCreated(store'[i]))]_vars
    /\ [](\A i \in Ids : Exists(store, i) /\ fresh[i] \in {"edited", "resumed"} =>
            CountsOwnFires(i))

\* C7: when the create handler's follow-up UPDATE has committed, the row has
\* notified=false, repeat_count=0, is_stopped=false, pending_auto_mark=0, the
\* parsed importance and cadence, and next_notify = floor_to_minute(start - lead).
C7_CreatedRow ==
    [][\A i \in Ids : last' = <<"created", i>> =>
          /\ Exists(store', i)
          /\ store'[i].notified = 0 /\ store'[i].rc = 0
          /\ store'[i].isStop = 0 /\ store'[i].pam = 0
          /\ store'[i].imp = uarg.d.imp /\ store'[i].rep = uarg.d.rep
          /\ store'[i].nn = (uarg.d.start - (uarg.d.rem * 60))
                            - ((uarg.d.start - (uarg.d.rem * 60)) % 60)]_vars

RowIds(st) == {i \in Ids : Exists(st, i)}

\* C8: no step of a reminder thread adds or removes a row (nor moves the id
\* counter), also when the row it writes has been deleted meanwhile; the set
\* of rows changes only in the create handler's INSERT and in delete.
C8_EngineKeepsRows ==
    [][/\ (wpc' # wpc \/ widx' # widx =>
              RowIds(store') = RowIds(store) /\ nextId' = nextId)
       /\ (RowIds(store') # RowIds(store) =>
              last'[1] \in {"insert", "delete"})]_vars

\* a reminder thread has just run its increment for a row deleted under it
C8_Witness ==
    \E w \in Sessions : /\ wpc[w] = "sel" /\ ~Exists(store, Cur(w).id)
                        /\ last = NoStep

-----------------------------------------------------------------------------
\* One handler against one tick (SpecOneOp)

\* a whole tick over a table of one row, as one step
TickRow(r, nowl) ==
    IF r = NoRow \/ r.isStop = 1 THEN [row |-> r, fired |-> 0]
    ELSE IF r.pam = 1 /\ secs_until(r, nowl) <= 0
    THEN [row |-> AutoMarkRow(r), fired |-> 0]
    ELSE IF Due(r, nowl)
    THEN [row |-> FinRow(IncRow(r), r, nowl, r.rc + 1), fired |-> 1]
    ELSE [row |-> r, fired |-> 0]

\* a whole handler, as one step
OpRow(r, op) ==
    CASE op.kind = "create" -> AttrRow(SetNextNotifyRow(InsertedRow(op.d), op.d), op.d)
      [] op.kind = "edit" -> IF r = NoRow THEN r ELSE EditedRow(r, op.d)
      [] op.kind = "mark" -> IF r = NoRow THEN r ELSE NotifiedRow(StopRow(r))
      [] op.kind = "delete" -> NoRow
      [] OTHER -> r

OpThenTick(r, op, nowl) == TickRow(OpRow(r, op), nowl)

TickThenOp(r, op, nowl) ==
    [row |-> OpRow(TickRow(r, nowl).row, op), fired |-> TickRow(r, nowl).fired]

OneOpDone ==
    /\ nops = MaxOps /\ upc = "idle"
    /\ wpc[1] = "sleep" /\ wuntil[1] > now

\* C9: once one handler and one tick have both finished, the row and the
\* notifications sent for it are those of the handler followed by the tick or
\* of the tick followed by the handler.
C9_Serializable ==
    OneOpDone =>
        LET i == uarg.id
            got == [row |-> store[i], fired |-> total[i]]
        IN  \/ got = OpThenTick(row0[i], uarg, now)
            \/ got = TickThenOp(row0[i], uarg, now)

-----------------------------------------------------------------------------
\* Several sessions (SpecSessions)

\* C10: at most one reminder thread runs, and no occurrence is notified more
\* often than its cap.
C10_OneLoop ==
    /\ Cardinality(running) <= 1
    /\ \A i \in Ids : Exists(store, i) => sent[i] <= Cap(i)

-----------------------------------------------------------------------------
\* Shutdown (SpecStop)

\* C16: once stop_event is set the thread starts no new tick, leaves the loop
\* only between ticks, and does leave it without any time having to pass.
C16_StopTerminates ==
    /\ [][\A w \in Sessions :
            /\ (w \in stop => ~(wpc[w] = "sleep" /\ wpc'[w] = "loop"))
            /\ (wpc'[w] = "done" /\ wpc[w] # "done" =>
                    wpc[w] = "sleep" /\ w \in stop)]_vars
    /\ \A w \in Sessions : (w \in stop) ~> (wpc[w] = "done")

\* the thread has ended although its wait had time left
C16_Witness ==
    wpc[1] = "done" /\ wuntil[1] > now /\ total[1] >= 1

-----------------------------------------------------------------------------
\* The alert feed (SpecAlerts)

\* the last Min(8, Len(al)) elements of al, in order
LastEight(al) ==
    [k \in 1..Min(8, Len(al)) |-> al[Len(al) - Min(8, Len(al)) + k]]

\* C17: every fire appends exactly one {title, time, location, importance}
\* record; the feed never holds more than 8 records; a read returns the
\* min(8, number of fires) most recent records in firing order and leaves the
\* feed as it is.
C17_BoundedFeed ==
    /\ [](Len(alerts) <= 8)
    /\ [][/\ (pin'[1] = "add" /\ pin' # pin =>
                 /\ Len(alerts') = Len(alerts) + 1
                 /\ SubSeq(alerts', 1, Len(alerts)) = alerts
                 /\ DOMAIN alerts'[Len(alerts')] =
                        {"event", "time", "location", "importance"})
           /\ (pin'[1] = "get" =>
                 /\ pout' = LastEight(alerts)
                 /\ alerts' = alerts)]_vars

-----------------------------------------------------------------------------
\* update_event_field (SpecUpdate)

\* the allow-list of the specification, with the row field each name denotes
FieldOf ==
    [event |-> "event", start_time |-> "start", end_time |-> "end",
     location |-> "loc", reminder_minutes |-> "rem", notified |-> "notified",
     importance |-> "imp", repeat_count |-> "rc", isStop |-> "isStop",
     next_notify |-> "nn", repeat |-> "rep", pending_auto_mark |-> "pam"]

\* C15: update_event_field with a field outside the allow-list raises and
\* leaves every row unchanged; with an allowed field it sets exactly that
\* field of exactly the row with that id (no row: nothing changes).
C15_UpdateField ==
    [][nops' = nops + 1 =>
          LET i == pin'[1]
              f == pin'[2]
              v == pin'[3]
          IN  IF f \notin DOMAIN FieldOf
              THEN pout' = "ValueError" /\ store' = store
              ELSE /\ pout' = "ok"
                   /\ \A j \in BatchIds :
                         IF j = i /\ Exists(store, i)
                         THEN /\ store'[j][FieldOf[f]] = v
                              /\ \A g \in DOMAIN store[j] \ {FieldOf[f]} :
                                    store'[j][g] = store[j][g]
                              /\ DOMAIN store'[j] = DOMAIN store[j]
                         ELSE store'[j] = store[j]]_vars

\* one call was rejected and one changed a field of row 1 beside a row 2
C15_Witness ==
    /\ nops = 2 /\ pout = "ValueError"
    /\ Exists(store, 1) /\ Exists(store, 2)
    /\ store[1] # row0[1] /\ store[2] = row0[2]

-----------------------------------------------------------------------------
\* Failures inside a tick (SpecFaults)

\* thread 1 has finished its tick
TickDone == wpc[1] = "sleep" /\ wuntil[1] > now

\* what the tick has left of event j: its row and the notifications sent
Outcome(j) == [row |-> store[j], fired |-> total[j]]

Raised(j) == <<"raised", j>> \in faults

\* C11: when the handling of an event has raised during a tick, every other
\* event of the list ends the tick with the row and the notifications it has
\* when a tick handles it alone without failure.
C11_OthersEvaluated ==
    TickDone /\ (\E i \in BatchIds : Raised(i)) =>
        \A j \in BatchIds : ~Raised(j) => Outcome(j) = TickRow(row0[j], now)

\* the event listed first has raised, the other has been notified
C11_Witness ==
    /\ TickDone /\ Raised(1) /\ ~Raised(2)
    /\ row0[1].start <= row0[2].start
    /\ total[2] = 1 /\ store[2] # row0[2]

\* C12: an event whose handling has raised during a tick has, after the
\* tick, the row it had before the tick.
C12_FailedEventUnchanged ==
    TickDone => \A j \in BatchIds : Raised(j) => store[j] = row0[j]

\* C13: no store failure ends the reminder thread.
C13_LoopSurvives ==
    \A w \in Sessions : wpc[w] # "dead"

\* C14: a notification whose delivery fails changes no row in its step,
\* counts as one call of the sink and leads on to the increment; after the
\* tick the event has the row and the single notification of a tick with a
\* working backend, and so has every other event that has not raised.
C14_DeliveryFailure ==
    /\ [][\A j \in BatchIds :
            <<"undelivered", j>> \in faults' \ faults =>
                /\ store' = store
                /\ total'[j] = total[j] + 1
                /\ \E w \in Sessions : wpc[w] = "loop" /\ wpc'[w] = "inc"
                                         /\ Cur(w).id = j]_vars
    /\ [](TickDone /\ (\E i \in BatchIds : <<"undelivered", i>> \in faults) =>
            \A j \in BatchIds : ~Raised(j) =>
                /\ Outcome(j) = TickRow(row0[j], now)
                /\ total[j] <= 1)

\* the first event's delivery has failed, both events are closed after one
\* notification each
C14_Witness ==
    /\ TickDone /\ faults = {<<"undelivered", 1>>}
    /\ row0[1].start <= row0[2].start
    /\ total[1] = 1 /\ total[2] = 1
    /\ store[1].isStop = 1 /\ store[2].isStop = 1

-----------------------------------------------------------------------------
\* nlp.norm (SpecNorm)

\* C20: norm applied to a normalized text returns that text.
C20_NormIdempotent ==
    Len(pout) = 2 => pout[2] = pout[1]

-----------------------------------------------------------------------------
\* nlp.parse_text (SpecParse)

\* the text holds a relative offset, a clock time or a vague-time phrase
HasTimeSignal(raw) ==
    Has(raw, {"5 phút nữa", "14:00", "15:30", "10h", "tầm chiều"})

\* C18: a text without any time signal, whether or not it names a date,
\* parses to no draft; in particular no draft starts at the current time.
C18_NoSignalNoDraft ==
    (Len(pout) = 1 /\ ~HasTimeSignal(pin)) => pout[1] = NoDraft

\* a text that names a date and no time has been parsed to no draft
C18_Witness ==
    /\ Len(pout) = 1
    /\ ~HasTimeSignal(pin)
    /\ Has(pin, {"mai", "15/11/2025"})
    /\ pout[1] = NoDraft

\* the second clock time of a range "hh:mm - hh:mm", <<>> when there is none
RangeEnd(raw) ==
    IF \E k \in 1..(Len(raw) - 2) :
          raw[k] \in DOMAIN ClockOf /\ raw[k + 1] = "-"
          /\ raw[k + 2] \in DOMAIN ClockOf
    THEN LET k == CHOOSE k \in 1..(Len(raw) - 2) :
                     raw[k] \in DOMAIN ClockOf /\ raw[k + 1] = "-"
                     /\ raw[k + 2] \in DOMAIN ClockOf
         IN  ClockOf[raw[k + 2]]
    ELSE <<>>

\* C19: the draft of a text with a time range ends at the second time on the
\* date of start, and the draft of a text without a second time has no end.
C19_RangeGivesEnd ==
    (Len(pout) = 1 /\ pout[1] # NoDraft) =>
        LET e == RangeEnd(pin)
            day == pout[1].start_time \div SecPerDay
        IN  pout[1].end_time = IF e = <<>> THEN NULL ELSE combine(day, e)

-----------------------------------------------------------------------------
\* The frame of a tick (SpecEngine)

\* the row is open, its notify instant has come and it is below its cap
Eligible(r, nowl) ==
    /\ r.isStop = 0
    /\ (IF r.nn # NULL THEN r.nn - (r.nn % 60)
        ELSE (r.start - (r.start % 60)) - (r.rem * 60)) <= nowl
    /\ r.rc < SpecCap(r.imp)

\* C21: a step of a tick changes a row, or notifies for it, only when the row
\* the tick read was open, due and below its cap; every other row keeps all
\* its fields through the tick.
C21_TickFrame ==
    [][\A i \in Ids :
          (store'[i] # store[i] \/ total'[i] # total[i]) =>
              \E w \in Sessions :
                  /\ wpc[w] \in {"loop", "inc", "sel", "fin"}
                  /\ Cur(w).id = i
                  /\ Eligible(Cur(w).ev, wnow[w])]_vars

\* a tick has run over an open row that was not due and left it as it was
C21_Witness ==
    /\ TickDone
    /\ store = row0
    /\ total[1] = 0
    /\ store[1].isStop = 0
    /\ ~Eligible(store[1], now)

-----------------------------------------------------------------------------
\* Ticks after a transient failure (SpecLive)

\* C22: a non-recurring event whose reminder instant has come is eventually
\* closed, after exactly as many notifications as its cap allows, also when a
\* store statement fails once while a tick handles the event.  Stated for the
\* events of cap 1, which need no further passage of time to reach their cap.
C22_EventuallyClosed ==
    \A i \in Ids :
        (store[i].rep = "none" /\ store[i].isStop = 0 /\ Cap(i) = 1
         /\ total[i] = 0 /\ Eligible(store[i], now))
            ~> (Closed(store[i]) /\ total[i] = Cap(i))

-----------------------------------------------------------------------------
\* Recurring events at their cap (SpecEngine)

\* C23: an event with a cadence (daily, weekly, monthly, every N units) is
\* never closed; the step that ends its last notification moves start to a
\* later instant, sets repeat_count 0 and notified false, stores next_notify =
\* floor_to_minute(new start - lead) and leaves the event open.
C23_CadenceRolls ==
    /\ [](\A i \in Ids : Exists(store, i) /\ store[i].rep # "none" =>
                            store[i].isStop = 0)
    /\ [][\A w \in Sessions :
            (wpc[w] = "fin" /\ wpc'[w] = "loop" /\ Cur(w).ev.rep # "none"
             /\ wrc[w] >= SpecCap(Cur(w).ev.imp)) =>
                LET r == store'[Cur(w).id]
                IN  /\ r.start > store[Cur(w).id].start
                    /\ r.rc = 0
                    /\ r.notified = 0
                    /\ r.isStop = 0
                    /\ r.nn = (r.start - (r.rem * 60))
                              - ((r.start - (r.rem * 60)) % 60)]_vars

-----------------------------------------------------------------------------
\* The month increment (SpecMonth)

\* C24: a monthly roll moves start to the next calendar month (December to
\* January of the next year) at the same time of day, on the same day of the
\* month when that day is at most 28 and on day 28 otherwise; "tháng sau"
\* resolves by the same rule.
C24_MonthClamp ==
    pout # <<>> =>
        LET old == YMD(pin[1] \div SecPerDay)
            y == IF old[2] = 12 THEN old[1] + 1 ELSE old[1]
            m == IF old[2] = 12 THEN 1 ELSE old[2] + 1
            d == IF old[3] <= 28 THEN old[3] ELSE 28
        IN  IF pout[1] = "roll"
            THEN /\ YMD(pout[2] \div SecPerDay) = <<y, m, d>>
                 /\ pout[2] % SecPerDay = pin[1] % SecPerDay
            ELSE YMD(pout[2]) = <<y, m, d>>

-----------------------------------------------------------------------------
\* The adaptive sleep (SpecWake), at the model's resolution of one second

\* the delays proposed by the events a tick read open and not yet due
WakeCandidates(w) ==
    {Min(secs_until(wevs[w][k].ev, wnow[w]), CHECK_INTERVAL) :
        k \in {j \in 1..Len(wevs[w]) :
                  /\ wevs[w][j].ev.isStop = 0
                  /\ secs_until(wevs[w][j].ev, wnow[w]) > 0}}

\* C25: the delay a thread sleeps after a tick is at most the poll interval
\* and is the least delay proposed by the events read as not yet due (the poll
\* interval when there is none); so the thread does not sleep past the notify
\* instant of an open event that is below its cap.
C25_WakeDelay ==
    [][\A w \in Sessions :
          (wpc[w] = "loop" /\ wpc'[w] = "sleep") =>
              /\ wwake[w] \in 1..CHECK_INTERVAL
              /\ \A c \in WakeCandidates(w) \cup {CHECK_INTERVAL} : wwake[w] <= c
              /\ wwake[w] \in WakeCandidates(w) \cup {CHECK_INTERVAL}
              /\ \A i \in Ids :
                    (/\ Exists(store, i)
                     /\ store[i].isStop = 0
                     /\ store[i].rc < Cap(i)
                     /\ next_notify(store[i]) > wnow[w]) =>
                         wnow[w] + wwake[w] <= next_notify(store[i])]_vars

\* the text gives its date as a full date and by no other phrase
ExplicitDate(raw) ==
    /\ Has(raw, {"15/11/2025"})
    /\ ~Has(raw, {"5 phút nữa", "mai", "mot", "cuoi", "tuan"})

\* C26: a start resolved from an explicit full date is returned as resolved,
\* also when it lies in the past; a start resolved without a full date is
\* moved one day later exactly when it is more than 5 seconds before now.
C26_PastCorrection ==
    (Len(pout) = 1 /\ pout[1] # NoDraft) =>
        LET r == _floor_to_min(resolve_start(pin, now))
        IN  /\ ExplicitDate(pin) => pout[1].start_time = r
            /\ ~Has(pin, {"15/11/2025"}) =>
                   pout[1].start_time = IF r < now - 5 THEN r + 86400 ELSE r

-----------------------------------------------------------------------------
\* Relative dates (SpecDates)

\* the day of the week a text names by one phrase: 6 for "cuối tuần", 0 for
\* "đầu tuần" (written dau tuan), the day of a weekday name; <<>> otherwise
NamedDay(raw) ==
    IF raw = <<"cuối", "tuần">> THEN <<6>>
    ELSE IF raw = <<"dau", "tuan">> THEN <<0>>
    ELSE IF raw \in {<<"th2">>, <<"họp", "th2">>} THEN <<0>>
    ELSE IF raw \in {<<"thu tu">>, <<"họp", "thu tu">>} THEN <<2>>
    ELSE IF raw \in {<<"cn">>, <<"họp", "cn">>} THEN <<6>>
    ELSE <<>>

\* C27: on every day of the week, a weekday name, "cuối tuần" (Sunday) and
\* "đầu tuần" (Monday) resolve to the next such day strictly after today, at
\* most 7 days ahead.
C27_NextNamedDay ==
    (pout # <<>> /\ NamedDay(pin) # <<>>) =>
        /\ pout[1] \in ((now \div SecPerDay) + 1)..((now \div SecPerDay) + 7)
        /\ (pout[1] + 2) % 7 = NamedDay(pin)[1]

-----------------------------------------------------------------------------
\* A manual mark of a recurring event (SpecMark)

\* C28: a weekly event marked as notified by the user is later rolled by the
\* reminder loop: it is open again with its start at a later occurrence.
C28_MarkedEventRolls ==
    \A i \in Ids :
        (/\ Exists(store, i) /\ store[i].rep = "weekly"
         /\ upc = "idle" /\ uarg.kind = "mark" /\ uarg.id = i)
            ~> (/\ Exists(store, i) /\ store[i].isStop = 0
                /\ store[i].start > row0[i].start)

-----------------------------------------------------------------------------
\* Open events and their cap, under user operations (SpecOneOp)

\* C29: whenever no tick is between a notification and its last write and no
\* handler is half-way, every open event has repeat_count below the cap of
\* its current importance, so it can still fire.
C29_OpenBelowCap ==
    \A i \in Ids :
        (Exists(store, i) /\ store[i].isStop = 0 /\ ~InFlight(i) /\ upc = "idle")
            => store[i].rc < Cap(i)

-----------------------------------------------------------------------------
\* Rolls of events that are behind the clock (SpecLate)

\* C30: the step that rolls a recurring event leaves next_notify at the new
\* occurrence's reminder instant and later than the tick's now, and the event
\* is notified again only from a row read at or after that instant.
C30_RollIsAhead ==
    [][\A w \in Sessions :
          /\ (wpc[w] = "fin" /\ store'[Cur(w).id].start # store[Cur(w).id].start) =>
                LET r == store'[Cur(w).id]
                IN  /\ r.nn = (r.start - (r.rem * 60)) - ((r.start - (r.rem * 60)) % 60)
                    /\ r.nn > wnow[w]
          /\ (wpc[w] = "loop" /\ wpc'[w] = "inc") =>
                next_notify(store[Cur(w).id]) <= wnow[w]]_vars

====
